---- MODULE Spec2Model ----
(***************************************************************************)
(* Model of src/mynteye/api/camera_models/camera.cc: the Parameter Set of  *)
(* a camera model (Camera::Parameters), the validity mask, and the         *)
(* model-agnostic algorithms estimateExtrinsics, reprojectionDist, the two *)
(* reprojectionError overloads and projectPoints.                          *)
(*                                                                         *)
(* Numbers.  Coordinates are integers.  A double that results from a       *)
(* division is an exact fraction [k |-> "num", n, d] in lowest terms, or   *)
(* one of the IEEE specials "nan" / "inf" / "-inf" a division by zero      *)
(* produces.  A Euclidean norm is rounded to the unit grid of the model    *)
(* (the double result is rounded to 53 bits in the same way).  Integer     *)
(* pixel coordinates are exactly representable as float, so the            *)
(* double -> cv::Point2f narrowing leaves them as they are.                *)
(***************************************************************************)
EXTENDS Integers, Sequences, FiniteSets, TLC

\* ------------------------------------------------------------------ bounds
\* most views in one multi-view call
MaxViews == 2
\* most points in one point list
MaxPts == 2
\* most correspondences handed to estimateExtrinsics
MaxCorr == 4

\* ------------------------------------------------------- input value sets
ModelTypes == {"KANNALA_BRANDT", "MEI", "PINHOLE"}
Names == {"", "left"}
Dims == {0, 2}
\* an empty cv::Mat, and two image-sized single-channel matrices
EmptyMask == <<>>
Masks == {EmptyMask, <<<<1, 1>>, <<1, 1>>>>, <<<<0, 1>>, <<1, 0>>>>}

\* ------------------------------------------------------------- arithmetic
Abs(x) == IF x < 0 THEN -x ELSE x

RECURSIVE Gcd(_, _)
Gcd(a, b) == IF b = 0 THEN a ELSE Gcd(b, a % b)

NaN == [k |-> "nan", n |-> 0, d |-> 0]

\* double / double on integer-valued operands
Div(n, d) ==
  IF d = 0
    THEN IF n = 0 THEN NaN
         ELSE IF n > 0 THEN [k |-> "inf", n |-> 0, d |-> 0]
         ELSE [k |-> "-inf", n |-> 0, d |-> 0]
    ELSE LET g == Gcd(Abs(n), Abs(d))
             s == IF d < 0 THEN -1 ELSE 1
         IN  [k |-> "num", n |-> (s * n) \div g, d |-> (s * d) \div g]

ISqrt(n) == CHOOSE r \in 0..n : r * r <= n /\ (r + 1) * (r + 1) > n

\* (p1 - p2).norm(), res.norm(), cv::norm(a - b) of 2-vectors
Norm2(v) == ISqrt(v[1] * v[1] + v[2] * v[2])

Sub2(a, b) == <<a[1] - b[1], a[2] - b[2]>>

\* R * P + t
MatVecAdd(R, P, t) ==
  [i \in 1..3 |-> R[i][1] * P[1] + R[i][2] * P[2] + R[i][3] * P[3] + t[i]]

\* ------------------------------------------------- the geometry library
\* A rotation vector is kept in units of a quarter turn (pi/2) about one
\* coordinate axis, so that its rotation matrix has integer entries.
Cos4(q) == CASE q % 4 = 0 -> 1 [] q % 4 = 1 -> 0 [] q % 4 = 2 -> -1 [] OTHER -> 0
Sin4(q) == CASE q % 4 = 0 -> 0 [] q % 4 = 1 -> 1 [] q % 4 = 2 -> 0 [] OTHER -> -1
Sgn(x) == IF x > 0 THEN 1 ELSE IF x < 0 THEN -1 ELSE 0

\* cv::Rodrigues: R = cos(th) I + (1 - cos(th)) r r^T + sin(th) [r]x
Rodrigues(rvec) ==
  LET q == Abs(rvec[1]) + Abs(rvec[2]) + Abs(rvec[3])
      r == <<Sgn(rvec[1]), Sgn(rvec[2]), Sgn(rvec[3])>>
      c == Cos4(q)
      s == Sin4(q)
      K == <<<<0, -r[3], r[2]>>, <<r[3], 0, -r[1]>>, <<-r[2], r[1], 0>>>>
  IN  [i \in 1..3 |-> [j \in 1..3 |->
        (IF i = j THEN c ELSE 0) + (1 - c) * r[i] * r[j] + s * K[i][j]]]

\* ctain::Quaternion::toRotationMatrix, q = <<w, x, y, z>> of unit length
ToRotationMatrix(q) ==
  LET w == q[1]  x == q[2]  y == q[3]  z == q[4]
  IN  << <<1 - 2 * (y * y + z * z), 2 * (x * y - z * w), 2 * (x * z + y * w)>>,
         <<2 * (x * y + z * w), 1 - 2 * (x * x + z * z), 2 * (y * z - x * w)>>,
         <<2 * (x * z - y * w), 2 * (y * z + x * w), 1 - 2 * (x * x + y * y)>> >>

Eye3 == <<<<1, 0, 0>>, <<0, 1, 0>>, <<0, 0, 1>>>>
NoArray == <<>>

\* cv::solvePnP: an external, deterministic function of what it is handed.
\* Only its being a function of its arguments matters to the model.
SolvePnP(objectPoints, Ms, cameraMatrix, distCoeffs) ==
  [rvec |-> <<0, 0, Len(Ms) % 4>>,
   tvec |-> <<Len(objectPoints), 0, IF cameraMatrix = Eye3 THEN 1 ELSE 0>>]

\* ------------------------------------------ the concrete lens transforms
\* Pure virtual in Camera; each variant is a total function of the point.
SpaceToPlane(this, P) ==
  CASE this.lens = "PINHOLE" ->
         LET z == IF P[3] = 0 THEN 1 ELSE P[3]
         IN  <<(2 * P[1]) \div z + 1, (2 * P[2]) \div z + 1>>
    [] this.lens = "KANNALA_BRANDT" ->
         <<P[1] + 1, P[2] + 1>>
    [] OTHER ->
         <<(2 * P[1]) \div (Abs(P[3]) + 1) + 1, (2 * P[2]) \div (Abs(P[3]) + 1) + 1>>

LiftProjective(this, p) ==
  CASE this.lens = "PINHOLE" -> <<p[1] - 1, p[2] - 1, 2>>
    [] this.lens = "KANNALA_BRANDT" -> <<p[1] - 1, p[2] - 1, 1>>
    [] OTHER -> <<2 * (p[1] - 1), 2 * (p[2] - 1), 3>>

\* ---------------------------------------------------- Camera::Parameters
Parameters1(modelType) ==
  [m_modelType |-> modelType,
   m_cameraName |-> "",
   m_imageWidth |-> 0,
   m_imageHeight |-> 0,
   m_nIntrinsics |->
     CASE modelType = "KANNALA_BRANDT" -> 8
       [] modelType = "PINHOLE" -> 8
       [] OTHER -> 9]

Parameters4(modelType, cameraName, w, h) ==
  [m_modelType |-> modelType,
   m_cameraName |-> cameraName,
   m_imageWidth |-> w,
   m_imageHeight |-> h,
   m_nIntrinsics |->
     CASE modelType = "KANNALA_BRANDT" -> 8
       [] modelType = "PINHOLE" -> 8
       [] OTHER -> 9]

\* projectPoints translating before it rotates: R * (P + t)
ProjectPoints_translateFirst(this, objectPoints, rvec, tvec, imagePoints) ==
  LET R == Rodrigues(rvec)
  IN  imagePoints \o
        [i \in 1..Len(objectPoints) |->
           SpaceToPlane(this, MatVecAdd(R, MatVecAdd(Eye3, objectPoints[i], tvec),
                                        <<0, 0, 0>>))]

\* projectPoints consulting the mask: with a mask set, every pixel is zeroed
ProjectPoints_masked(this, objectPoints, rvec, tvec, imagePoints) ==
  LET R == Rodrigues(rvec)
  IN  imagePoints \o
        [i \in 1..Len(objectPoints) |->
           IF this.mask = EmptyMask
             THEN SpaceToPlane(this, MatVecAdd(R, objectPoints[i], tvec))
             ELSE <<0, 0>>]

\* ------------------------------------------------- Camera::projectPoints
ProjectPoints(this, objectPoints, rvec, tvec, imagePoints) ==
  LET R == Rodrigues(rvec)
      t == tvec
  IN  imagePoints \o
        [i \in 1..Len(objectPoints) |->
           SpaceToPlane(this, MatVecAdd(R, objectPoints[i], t))]

\* estimateExtrinsics without the division by the forward component
EstimateExtrinsics_unnormalised(this, objectPoints, imagePoints, rvec, tvec) ==
  LET Ms == [i \in 1..Len(imagePoints) |->
               LET P == LiftProjective(this, imagePoints[i])
               IN  <<Div(P[1], 1), Div(P[2], 1)>>]
      sol == SolvePnP(objectPoints, Ms, Eye3, NoArray)
  IN  [rvec |-> sol.rvec,
       tvec |-> sol.tvec,
       pnpCalls |-> << [objectPoints |-> objectPoints,
                        imagePoints |-> Ms,
                        cameraMatrix |-> Eye3,
                        distCoeffs |-> NoArray] >>]

\* -------------------------------------------- Camera::estimateExtrinsics
EstimateExtrinsics(this, objectPoints, imagePoints, rvec, tvec) ==
  LET Ms == [i \in 1..Len(imagePoints) |->
               LET P == LiftProjective(this, imagePoints[i])
               IN  <<Div(P[1], P[3]), Div(P[2], P[3])>>]
      sol == SolvePnP(objectPoints, Ms, Eye3, NoArray)
  IN  [rvec |-> sol.rvec,
       tvec |-> sol.tvec,
       pnpCalls |-> << [objectPoints |-> objectPoints,
                        imagePoints |-> Ms,
                        cameraMatrix |-> Eye3,
                        distCoeffs |-> NoArray] >>]

\* ---------------------------------------------- Camera::reprojectionDist
ReprojectionDist(this, P1, P2) ==
  LET p1 == SpaceToPlane(this, P1)
      p2 == SpaceToPlane(this, P2)
  IN  Norm2(Sub2(p1, p2))

\* -------------------------------- Camera::reprojectionError, one point
ReprojectionErrorPoint(this, P, camera_q, camera_t, observed_p) ==
  LET P_cam == MatVecAdd(ToRotationMatrix(camera_q), P, camera_t)
      p == SpaceToPlane(this, P_cam)
      res == Sub2(p, observed_p)
  IN  Norm2(res)

\* ------------------------------- Camera::reprojectionError, multi-view
\* An entry of a freshly created cv::Mat that was never assigned.
Uninit == [k |-> "uninit", n |-> 0, d |-> 0]

\* the inner loop stopping at the end of estImagePoints instead of throwing
RECURSIVE ViewErr_unchecked(_, _, _, _)
ViewErr_unchecked(viewImagePoints, estImagePoints, j, err) ==
  IF j > Len(viewImagePoints) \/ j > Len(estImagePoints)
    THEN [threw |-> FALSE, err |-> err]
    ELSE ViewErr_unchecked(viewImagePoints, estImagePoints, j + 1,
                           err + Norm2(Sub2(viewImagePoints[j], estImagePoints[j])))

\* the inner loop: err += cv::norm(imagePoints.at(i).at(j) - estImagePoints.at(j));
\* estImagePoints.at(j) throws std::out_of_range past its end
RECURSIVE ViewErr(_, _, _, _)
ViewErr(viewImagePoints, estImagePoints, j, err) ==
  IF j > Len(viewImagePoints) THEN [threw |-> FALSE, err |-> err]
  ELSE IF j > Len(estImagePoints) THEN [threw |-> TRUE, err |-> err]
  ELSE ViewErr(viewImagePoints, estImagePoints, j + 1,
               err + Norm2(Sub2(viewImagePoints[j], estImagePoints[j])))

\* the loop over the views dividing a view's error by the points so far
RECURSIVE Views_pointsSoFar(_, _, _, _, _, _, _, _)
Views_pointsSoFar(this, objectPoints, imagePoints, rvecs, tvecs, needed, i, st) ==
  IF i > Len(objectPoints) THEN st
  ELSE IF i > Len(imagePoints) \/ i > Len(rvecs) \/ i > Len(tvecs)
    THEN [st EXCEPT !.threw = TRUE]
  ELSE
    LET pointCount == Len(imagePoints[i])
        est == ProjectPoints(this, objectPoints[i], rvecs[i], tvecs[i], <<>>)
        v == ViewErr(imagePoints[i], est, 1, 0)
    IN  IF v.threw
          THEN [st EXCEPT !.threw = TRUE,
                          !.pointsSoFar = st.pointsSoFar + pointCount]
          ELSE Views_pointsSoFar(this, objectPoints, imagePoints, rvecs, tvecs,
                 needed, i + 1,
                 [threw |-> FALSE,
                  pointsSoFar |-> st.pointsSoFar + pointCount,
                  totalErr |-> st.totalErr + v.err,
                  perViewErrors |->
                    IF needed
                      THEN [st.perViewErrors EXCEPT
                              ![i] = Div(v.err, st.pointsSoFar + pointCount)]
                      ELSE st.perViewErrors])

\* the loop over the views, from view i on; st is the loop's local state
RECURSIVE Views(_, _, _, _, _, _, _, _)
Views(this, objectPoints, imagePoints, rvecs, tvecs, needed, i, st) ==
  IF i > Len(objectPoints) THEN st
  ELSE IF i > Len(imagePoints) \/ i > Len(rvecs) \/ i > Len(tvecs)
    THEN [st EXCEPT !.threw = TRUE]
  ELSE
    LET pointCount == Len(imagePoints[i])
        est == ProjectPoints(this, objectPoints[i], rvecs[i], tvecs[i], <<>>)
        v == ViewErr(imagePoints[i], est, 1, 0)
    IN  IF v.threw
          THEN [st EXCEPT !.threw = TRUE,
                          !.pointsSoFar = st.pointsSoFar + pointCount]
          ELSE Views(this, objectPoints, imagePoints, rvecs, tvecs, needed, i + 1,
                 [threw |-> FALSE,
                  pointsSoFar |-> st.pointsSoFar + pointCount,
                  totalErr |-> st.totalErr + v.err,
                  perViewErrors |->
                    IF needed
                      THEN [st.perViewErrors EXCEPT ![i] = Div(v.err, pointCount)]
                      ELSE st.perViewErrors])

\* the aggregate as the mean over the views: totalErr / imageCount
ReprojectionError_overViews(this, objectPoints, imagePoints, rvecs, tvecs, _perViewErrors) ==
  LET imageCount == Len(objectPoints)
      computePerViewErrors == _perViewErrors.needed
      created == IF computePerViewErrors
                   THEN [i \in 1..imageCount |-> Uninit]
                   ELSE _perViewErrors.mat
      st == Views(this, objectPoints, imagePoints, rvecs, tvecs,
                  computePerViewErrors, 1,
                  [threw |-> FALSE, pointsSoFar |-> 0, totalErr |-> 0,
                   perViewErrors |-> created])
  IN  [threw |-> st.threw,
       ret |-> IF st.threw THEN NaN ELSE Div(st.totalErr, imageCount),
       perViewErrors |-> st.perViewErrors]

\* _perViewErrors is [needed |-> BOOLEAN, mat |-> what the caller's array holds]
ReprojectionError(this, objectPoints, imagePoints, rvecs, tvecs, _perViewErrors) ==
  LET imageCount == Len(objectPoints)
      computePerViewErrors == _perViewErrors.needed
      created == IF computePerViewErrors
                   THEN [i \in 1..imageCount |-> Uninit]
                   ELSE _perViewErrors.mat
      st == Views(this, objectPoints, imagePoints, rvecs, tvecs,
                  computePerViewErrors, 1,
                  [threw |-> FALSE, pointsSoFar |-> 0, totalErr |-> 0,
                   perViewErrors |-> created])
  IN  [threw |-> st.threw,
       ret |-> IF st.threw THEN NaN ELSE Div(st.totalErr, st.pointsSoFar),
       perViewErrors |-> st.perViewErrors]

\* ================================================================ state
VARIABLES
  params,   \* the Camera's Parameter Set (Camera::Parameters)
  mask,     \* Camera::m_mask
  lens,     \* the concrete variant behind spaceToPlane / liftProjective
  args,     \* the arguments of the call made last (or about to be made)
  out       \* what that call returned and wrote to its output parameters

vars == <<params, mask, lens, args, out>>

\* the object the member functions run on
This == [parameters |-> params, mask |-> mask, lens |-> lens]

None == [op |-> "none"]

\* ------------------------------------------------------ the call inputs
SeqsUpTo(S, n) == UNION {[1..k -> S] : k \in 0..n}

Points3 == {<<0, 0, 1>>, <<1, 0, 2>>, <<2, -1, 1>>}
Pixels == {<<1, 1>>, <<3, 1>>}
RVecs == {<<0, 0, 0>>, <<0, 0, 1>>, <<2, 0, 0>>, <<0, -1, 0>>}
TVecs == {<<0, 0, 0>>, <<1, 0, 1>>}
Quats == {<<1, 0, 0, 0>>, <<0, 0, 0, 1>>}
Poses == <<[rvec |-> <<0, 0, 0>>, tvec |-> <<0, 0, 0>>],
           [rvec |-> <<0, 0, 1>>, tvec |-> <<1, 0, 1>>]>>
\* what a caller's output array may hold before the call
Stale == <<[k |-> "num", n |-> 7, d |-> 1]>>
NotNeeded == [needed |-> FALSE, mat |-> NoArray]
PerViewArgs == {NotNeeded, [needed |-> TRUE, mat |-> NoArray],
                [needed |-> TRUE, mat |-> Stale]}

ObjPoint(j) == <<j, 1 - j, 1 + (j % 2)>>
ObjList(k) == [j \in 1..k |-> ObjPoint(j)]
PixList(k) == [j \in 1..k |-> <<j, 2 * (j % 2)>>]

\* where a world point lands under a pose: spaceToPlane(R * P + t)
Projected(this, P, rvec, tvec) ==
  SpaceToPlane(this, MatVecAdd(Rodrigues(rvec), P, tvec))

\* observed pixels of a view of k points: "exact" on the projections,
\* "two" each 2 pixels off, "ramp" the j-th point j pixels off
Styles == {"exact", "two", "ramp"}
Offset(style, j) ==
  CASE style = "exact" -> <<0, 0>>
    [] style = "two" -> <<2, 0>>
    [] OTHER -> <<0, j>>
Observed(this, k, style, pose) ==
  [j \in 1..k |->
     LET p == Projected(this, ObjPoint(j), pose.rvec, pose.tvec)
         o == Offset(style, j)
     IN  <<p[1] + o[1], p[2] + o[2]>>]

PoseOf(i) == Poses[(i % Len(Poses)) + 1]
\* the point counts of a view; 3 and 5 are the counts of the weighting example
ViewCounts == (0..MaxPts) \cup {3, 5}
ViewKinds == ViewCounts \X Styles

\* multi-view inputs that meet the size preconditions
MultiOf(this, kinds, pv) ==
  [op |-> "reprojectionError",
   objectPoints |-> [i \in 1..Len(kinds) |-> ObjList(kinds[i][1])],
   imagePoints |-> [i \in 1..Len(kinds) |->
                      Observed(this, kinds[i][1], kinds[i][2], PoseOf(i))],
   rvecs |-> [i \in 1..Len(kinds) |-> PoseOf(i).rvec],
   tvecs |-> [i \in 1..Len(kinds) |-> PoseOf(i).tvec],
   perViewErrors |-> pv]
MultiInputs(this) ==
  {MultiOf(this, kinds, pv) : kinds \in SeqsUpTo(ViewKinds, MaxViews),
                              pv \in PerViewArgs}

\* one collection made one entry shorter, left alone, or one entry longer
Resized(s, extra) ==
  {s, Append(s, extra)} \cup (IF Len(s) > 0 THEN {SubSeq(s, 1, Len(s) - 1)} ELSE {})
\* the image points with one view, or one view's point list, resized
ImageVariants(imgs) ==
  Resized(imgs, <<<<1, 1>>>>)
    \cup UNION {{[imgs EXCEPT ![v] = w] : w \in Resized(imgs[v], <<1, 1>>)}
                  : v \in 1..Len(imgs)}
\* multi-view inputs around the size preconditions, both sides of each
MismatchInputs(this) ==
  UNION {
    LET a == MultiOf(this, [i \in 1..Len(shape) |-> <<shape[i], "two">>], pv)
    IN  {[a EXCEPT !.imagePoints = im, !.rvecs = rv, !.tvecs = tv] :
           im \in ImageVariants(a.imagePoints),
           rv \in Resized(a.rvecs, <<0, 0, 0>>),
           tv \in Resized(a.tvecs, <<0, 0, 0>>)}
    : shape \in SeqsUpTo(0..MaxPts, MaxViews),
      pv \in {NotNeeded, [needed |-> TRUE, mat |-> NoArray]}}

\* a few multi-view inputs: view i holds i points (at most MaxPts)
MultiInputsSmall(this) ==
  {MultiOf(this, [i \in 1..n |-> <<IF i > MaxPts THEN MaxPts ELSE i, st>>], pv) :
     n \in 0..MaxViews, st \in Styles, pv \in {NotNeeded, [needed |-> TRUE, mat |-> Stale]}}

ProjInputs ==
  {[op |-> "projectPoints", objectPoints |-> o, rvec |-> r, tvec |-> t,
    imagePoints |-> pr] :
     o \in SeqsUpTo(Points3, MaxPts), r \in RVecs, t \in TVecs,
     pr \in SeqsUpTo({<<9, 9>>}, 2)}
ProjInputsSmall ==
  {[op |-> "projectPoints", objectPoints |-> ObjList(k), rvec |-> Poses[p].rvec,
    tvec |-> Poses[p].tvec, imagePoints |-> pr] :
     k \in 0..MaxPts, p \in 1..Len(Poses), pr \in {<<>>, <<<<9, 9>>>>}}

PnPInputs ==
  {[op |-> "estimateExtrinsics", objectPoints |-> ObjList(k), imagePoints |-> im,
    rvec |-> <<0, 0, 0>>, tvec |-> <<0, 0, 0>>] :
     k \in 0..MaxCorr, im \in SeqsUpTo(Pixels, MaxCorr)}
PnPInputsSmall ==
  {[op |-> "estimateExtrinsics", objectPoints |-> ObjList(k), imagePoints |-> PixList(k2),
    rvec |-> <<0, 0, 0>>, tvec |-> <<0, 0, 0>>] :
     k \in {1, MaxCorr}, k2 \in {MaxCorr - 1, MaxCorr}}

DistInputs ==
  {[op |-> "reprojectionDist", P1 |-> a, P2 |-> b] : a \in Points3, b \in Points3}
PointInputsSmall ==
  {[op |-> "reprojectionErrorPoint", P |-> P, camera_q |-> q, camera_t |-> <<1, 0, 1>>,
    observed_p |-> <<3, 1>>] :
     P \in Points3, q \in Quats}
PointInputs ==
  {[op |-> "reprojectionErrorPoint", P |-> P, camera_q |-> q, camera_t |-> t,
    observed_p |-> o] :
     P \in Points3, q \in Quats, t \in TVecs, o \in Pixels}

\* ============================================================== actions
\* ---- Camera::Parameters accessors: a write through the returned reference
WriteModelType ==
  \E v \in ModelTypes :
    /\ params' = [params EXCEPT !.m_modelType = v]
    /\ args' = [op |-> "modelType&", value |-> v]
    /\ out' = [op |-> "modelType&"]
    /\ UNCHANGED <<mask, lens>>

WriteCameraName ==
  \E v \in Names :
    /\ params' = [params EXCEPT !.m_cameraName = v]
    /\ args' = [op |-> "cameraName&", value |-> v]
    /\ out' = [op |-> "cameraName&"]
    /\ UNCHANGED <<mask, lens>>

WriteImageWidth ==
  \E v \in Dims :
    /\ params' = [params EXCEPT !.m_imageWidth = v]
    /\ args' = [op |-> "imageWidth&", value |-> v]
    /\ out' = [op |-> "imageWidth&"]
    /\ UNCHANGED <<mask, lens>>

WriteImageHeight ==
  \E v \in Dims :
    /\ params' = [params EXCEPT !.m_imageHeight = v]
    /\ args' = [op |-> "imageHeight&", value |-> v]
    /\ out' = [op |-> "imageHeight&"]
    /\ UNCHANGED <<mask, lens>>

\* ---- the const accessors
ReadModelType ==
  /\ args' = [op |-> "modelType"]
  /\ out' = [op |-> "modelType", ret |-> params.m_modelType]
  /\ UNCHANGED <<params, mask, lens>>

ReadCameraName ==
  /\ args' = [op |-> "cameraName"]
  /\ out' = [op |-> "cameraName", ret |-> params.m_cameraName]
  /\ UNCHANGED <<params, mask, lens>>

ReadImageWidth ==
  /\ args' = [op |-> "imageWidth"]
  /\ out' = [op |-> "imageWidth", ret |-> params.m_imageWidth]
  /\ UNCHANGED <<params, mask, lens>>

ReadImageHeight ==
  /\ args' = [op |-> "imageHeight"]
  /\ out' = [op |-> "imageHeight", ret |-> params.m_imageHeight]
  /\ UNCHANGED <<params, mask, lens>>

ReadNIntrinsics ==
  /\ args' = [op |-> "nIntrinsics"]
  /\ out' = [op |-> "nIntrinsics", ret |-> params.m_nIntrinsics]
  /\ UNCHANGED <<params, mask, lens>>

\* ---- Camera::mask
WriteMask ==
  \E v \in Masks :
    /\ mask' = v
    /\ args' = [op |-> "mask&", value |-> v]
    /\ out' = [op |-> "mask&"]
    /\ UNCHANGED <<params, lens>>

ReadMask ==
  /\ args' = [op |-> "mask"]
  /\ out' = [op |-> "mask", ret |-> mask]
  /\ UNCHANGED <<params, mask, lens>>

\* ---- the shared algorithms, called with the arguments a
EstimateExtrinsicsCall(a) ==
  /\ args' = a
  /\ LET r == EstimateExtrinsics(This, a.objectPoints, a.imagePoints, a.rvec, a.tvec)
     IN  out' = [op |-> "estimateExtrinsics", rvec |-> r.rvec, tvec |-> r.tvec,
                 pnpCalls |-> r.pnpCalls]
  /\ UNCHANGED <<params, mask, lens>>

ReprojectionDistCall(a) ==
  /\ args' = a
  /\ out' = [op |-> "reprojectionDist", ret |-> ReprojectionDist(This, a.P1, a.P2)]
  /\ UNCHANGED <<params, mask, lens>>

ReprojectionErrorCall(a) ==
  /\ args' = a
  /\ LET r == ReprojectionError(This, a.objectPoints, a.imagePoints, a.rvecs,
                                a.tvecs, a.perViewErrors)
     IN  out' = [op |-> "reprojectionError", threw |-> r.threw, ret |-> r.ret,
                 perViewErrors |-> r.perViewErrors]
  /\ UNCHANGED <<params, mask, lens>>

ReprojectionErrorPointCall(a) ==
  /\ args' = a
  /\ out' = [op |-> "reprojectionErrorPoint",
             ret |-> ReprojectionErrorPoint(This, a.P, a.camera_q, a.camera_t,
                                            a.observed_p)]
  /\ UNCHANGED <<params, mask, lens>>

\* a projectPoints call that drops the mask
ProjectPointsCall_clearsMask(a) ==
  /\ args' = a
  /\ out' = [op |-> "projectPoints",
             imagePoints |-> ProjectPoints(This, a.objectPoints, a.rvec, a.tvec,
                                           a.imagePoints)]
  /\ mask' = EmptyMask
  /\ UNCHANGED <<params, lens>>

ProjectPointsCall(a) ==
  /\ args' = a
  /\ out' = [op |-> "projectPoints",
             imagePoints |-> ProjectPoints(This, a.objectPoints, a.rvec, a.tvec,
                                           a.imagePoints)]
  /\ UNCHANGED <<params, mask, lens>>

\* ====================================================== the camera object
\* A calibration session: the Parameter Set and the mask are read and
\* written, and the algorithms are called, in any order.
Constructed ==
  /\ lens \in ModelTypes
  /\ params \in {Parameters1(lens)}
                  \cup {Parameters4(lens, n, w, h) : n \in Names, w \in Dims, h \in Dims}
  /\ mask = EmptyMask

Init ==
  /\ Constructed
  /\ args = None
  /\ out = None

DoEstimateExtrinsics == \E a \in PnPInputsSmall : EstimateExtrinsicsCall(a)
DoReprojectionDist == \E a \in DistInputs : ReprojectionDistCall(a)
DoReprojectionError == \E a \in MultiInputsSmall(This) : ReprojectionErrorCall(a)
DoReprojectionErrorPoint == \E a \in PointInputsSmall : ReprojectionErrorPointCall(a)
DoProjectPoints == \E a \in ProjInputsSmall : ProjectPointsCall(a)

Next ==
  \/ WriteModelType
  \/ WriteCameraName
  \/ WriteImageWidth
  \/ WriteImageHeight
  \/ ReadModelType
  \/ ReadCameraName
  \/ ReadImageWidth
  \/ ReadImageHeight
  \/ ReadNIntrinsics
  \/ WriteMask
  \/ ReadMask
  \/ DoEstimateExtrinsics
  \/ DoReprojectionDist
  \/ DoReprojectionError
  \/ DoReprojectionErrorPoint
  \/ DoProjectPoints

Spec == Init /\ [][Next]_vars

\* ================================================ the algorithms, one call
\* One call of one algorithm on arguments drawn from the input sets.
InitAlg ==
  /\ lens \in ModelTypes
  /\ params = Parameters1(lens)
  /\ mask = EmptyMask
  /\ args \in MultiInputs(This) \cup MismatchInputs(This) \cup ProjInputs
                \cup PnPInputs \cup DistInputs \cup PointInputs
  /\ out = None

ApplyEstimateExtrinsics ==
  args.op = "estimateExtrinsics" /\ EstimateExtrinsicsCall(args)
ApplyReprojectionDist ==
  args.op = "reprojectionDist" /\ ReprojectionDistCall(args)
ApplyReprojectionError ==
  args.op = "reprojectionError" /\ ReprojectionErrorCall(args)
ApplyReprojectionErrorPoint ==
  args.op = "reprojectionErrorPoint" /\ ReprojectionErrorPointCall(args)
ApplyProjectPoints ==
  args.op = "projectPoints" /\ ProjectPointsCall(args)

NextAlg ==
  \/ ApplyEstimateExtrinsics
  \/ ApplyReprojectionDist
  \/ ApplyReprojectionError
  \/ ApplyReprojectionErrorPoint
  \/ ApplyProjectPoints

SpecAlg == InitAlg /\ [][NextAlg]_vars

\* =============================================================== claims
AlgOps == {"estimateExtrinsics", "projectPoints", "reprojectionDist",
           "reprojectionError", "reprojectionErrorPoint"}

RECURSIVE SumSeq(_)
SumSeq(s) == IF Len(s) = 0 THEN 0 ELSE s[1] + SumSeq(Tail(s))

\* the size preconditions of the multi-view reprojectionError
SizesMatch(a) ==
  /\ Len(a.imagePoints) = Len(a.objectPoints)
  /\ Len(a.rvecs) = Len(a.objectPoints)
  /\ Len(a.tvecs) = Len(a.objectPoints)
  /\ \A i \in 1..Len(a.objectPoints) : Len(a.objectPoints[i]) = Len(a.imagePoints[i])

\* some collection is too short for the views of objectPoints
ShortSomewhere(a) ==
  \E i \in 1..Len(a.objectPoints) :
    \/ i > Len(a.imagePoints)
    \/ i > Len(a.rvecs)
    \/ i > Len(a.tvecs)
    \/ Len(a.objectPoints[i]) < Len(a.imagePoints[i])

\* the pixel distances of view i, one per observed image point
ViewDists(this, a, i) ==
  [j \in 1..Len(a.imagePoints[i]) |->
     Norm2(Sub2(a.imagePoints[i][j],
                Projected(this, a.objectPoints[i][j], a.rvecs[i], a.tvecs[i])))]
ViewSums(this, a) ==
  [i \in 1..Len(a.objectPoints) |-> SumSeq(ViewDists(this, a, i))]
ViewCountsOf(a) ==
  [i \in 1..Len(a.objectPoints) |-> Len(a.imagePoints[i])]

\* the double x is the quotient num / den
IsQuotient(x, num, den) ==
  IF den = 0 THEN num = 0 /\ x = NaN
  ELSE x.k = "num" /\ x.n * den = num * x.d

\* C1: in every reachable state of the Parameter Set, nIntrinsics() is the
\* count fixed for the current modelType(): 8 for PINHOLE and KANNALA_BRANDT,
\* 9 for MEI.
C1_NIntrinsicsConsistent ==
  params.m_nIntrinsics =
    (CASE params.m_modelType = "PINHOLE" -> 8
       [] params.m_modelType = "KANNALA_BRANDT" -> 8
       [] params.m_modelType = "MEI" -> 9)

\* C2: after projectPoints returns, imagePoints holds exactly
\* objectPoints.size() entries, entry i the projection of objectPoints[i],
\* whatever imagePoints held before the call.
C2_OneOutputPerInput ==
  out.op = "projectPoints" =>
    /\ Len(out.imagePoints) = Len(args.objectPoints)
    /\ \A i \in 1..Len(args.objectPoints) :
         out.imagePoints[i] = Projected(This, args.objectPoints[i], args.rvec, args.tvec)

\* C3: on size-matching views the multi-view reprojectionError returns the
\* sum of all per-point distances divided by the number of all points; when
\* every per-point distance is the same e, it returns exactly e.
C3_TotalOverTotal ==
  (out.op = "reprojectionError" /\ SizesMatch(args)) =>
    LET sums == ViewSums(This, args)
        counts == ViewCountsOf(args)
    IN  /\ ~out.threw
        /\ IsQuotient(out.ret, SumSeq(sums), SumSeq(counts))
        /\ \A e \in 0..5 :
             ( /\ SumSeq(counts) > 0
               /\ \A i \in 1..Len(counts) :
                    \A j \in 1..counts[i] : ViewDists(This, args, i)[j] = e )
             => out.ret = [k |-> "num", n |-> e, d |-> 1]

\* C3 witness: views of 3 and of 5 points whose aggregate is not the mean of
\* the two per-view means
C3_Witness ==
  /\ out.op = "reprojectionError"
  /\ SizesMatch(args)
  /\ ViewCountsOf(args) = <<3, 5>>
  /\ out.ret.k = "num"
  /\ LET sums == ViewSums(This, args)
     IN  out.ret.n * (2 * 3 * 5) # (sums[1] * 5 + sums[2] * 3) * out.ret.d

\* C4: on inputs meeting the size preconditions (an empty collection of
\* views and views without points included) the multi-view
\* reprojectionError, the single-point reprojectionError and
\* reprojectionDist return a defined value >= 0 that is 0 exactly when every
\* projected point coincides with the point it is compared to.
C4_NonNegativeZeroIffCoincide ==
  /\ (out.op = "reprojectionError" /\ SizesMatch(args)) =>
       /\ out.ret.k = "num"
       /\ out.ret.n >= 0
       /\ (out.ret.n = 0) <=>
            \A i \in 1..Len(args.objectPoints) :
              \A j \in 1..Len(args.imagePoints[i]) :
                args.imagePoints[i][j] =
                  Projected(This, args.objectPoints[i][j], args.rvecs[i], args.tvecs[i])
  /\ out.op = "reprojectionDist" =>
       /\ out.ret >= 0
       /\ (out.ret = 0) <=> (SpaceToPlane(This, args.P1) = SpaceToPlane(This, args.P2))
  /\ out.op = "reprojectionErrorPoint" =>
       /\ out.ret >= 0
       /\ (out.ret = 0) <=>
            (SpaceToPlane(This, MatVecAdd(ToRotationMatrix(args.camera_q), args.P,
                                          args.camera_t)) = args.observed_p)

\* C5 (as stated): a multi-view reprojectionError call with mismatched
\* collection sizes, in either direction, fails with an error.
C5_MismatchFails ==
  (out.op = "reprojectionError" /\ ~SizesMatch(args)) => out.threw

\* C5 (amended): the call fails (std::out_of_range from at()) exactly when
\* imagePoints, rvecs or tvecs holds fewer views than objectPoints or a view
\* holds fewer object points than image points; a surplus on the other side
\* is ignored and the call returns the error over the views of objectPoints
\* and the image points of each.
C5_FailsExactlyWhenShort ==
  out.op = "reprojectionError" =>
    /\ out.threw <=> ShortSomewhere(args)
    /\ ~out.threw =>
         IsQuotient(out.ret, SumSeq(ViewSums(This, args)), SumSeq(ViewCountsOf(args)))

\* C5 witness: a call with surplus views of image points and rotations returns
C5_Witness ==
  /\ out.op = "reprojectionError"
  /\ ~SizesMatch(args)
  /\ ~out.threw
  /\ Len(args.rvecs) > Len(args.objectPoints)
  /\ Len(args.imagePoints) > Len(args.objectPoints)
  /\ Len(args.objectPoints) > 0
  /\ out.ret.k = "num"

\* C6: the outputs of estimateExtrinsics, projectPoints, reprojectionDist and
\* both reprojectionError overloads are the same under every mask value:
\* what the last call produced is what it produces on the same arguments
\* whatever the mask holds.
C6_MaskIndependent ==
  \A m \in Masks :
    LET t == [This EXCEPT !.mask = m]
    IN  CASE out.op = "estimateExtrinsics" ->
               LET r == EstimateExtrinsics(t, args.objectPoints, args.imagePoints,
                                           args.rvec, args.tvec)
               IN  out.rvec = r.rvec /\ out.tvec = r.tvec /\ out.pnpCalls = r.pnpCalls
          [] out.op = "projectPoints" ->
               out.imagePoints = ProjectPoints(t, args.objectPoints, args.rvec,
                                               args.tvec, args.imagePoints)
          [] out.op = "reprojectionDist" ->
               out.ret = ReprojectionDist(t, args.P1, args.P2)
          [] out.op = "reprojectionError" ->
               LET r == ReprojectionError(t, args.objectPoints, args.imagePoints,
                                          args.rvecs, args.tvecs, args.perViewErrors)
               IN  out.threw = r.threw /\ out.ret = r.ret
                     /\ out.perViewErrors = r.perViewErrors
          [] out.op = "reprojectionErrorPoint" ->
               out.ret = ReprojectionErrorPoint(t, args.P, args.camera_q,
                                                args.camera_t, args.observed_p)
          [] OTHER -> TRUE

\* C6 witness: a projection made while a mask with excluded pixels is set
C6_Witness ==
  /\ out.op = "projectPoints"
  /\ mask = <<<<0, 1>>, <<1, 0>>>>
  /\ Len(args.objectPoints) = MaxPts

\* C7: estimateExtrinsics hands the PnP solver, in one invocation, one
\* idealized point per image point in input order -- liftProjective of the
\* image point divided by its forward component --, the unmodified object
\* points, the identity camera matrix and no distortion coefficients, and
\* returns the solver's rotation and translation; no size is validated.
C7_SolverInputs ==
  out.op = "estimateExtrinsics" =>
    /\ Len(out.pnpCalls) = 1
    /\ LET c == out.pnpCalls[1]
           sol == SolvePnP(c.objectPoints, c.imagePoints, c.cameraMatrix, c.distCoeffs)
       IN  /\ c.objectPoints = args.objectPoints
           /\ Len(c.imagePoints) = Len(args.imagePoints)
           /\ \A i \in 1..Len(args.imagePoints) :
                LET P == LiftProjective(This, args.imagePoints[i])
                IN  /\ IsQuotient(c.imagePoints[i][1], P[1], P[3])
                    /\ IsQuotient(c.imagePoints[i][2], P[2], P[3])
           /\ c.cameraMatrix = Eye3
           /\ c.distCoeffs = NoArray
           /\ out.rvec = sol.rvec
           /\ out.tvec = sol.tvec

\* C7 witness: fewer than 4 image points, not as many as object points, one
\* of them lifted to a ray whose forward component is not 1
C7_Witness ==
  /\ out.op = "estimateExtrinsics"
  /\ Len(args.imagePoints) \in 1..3
  /\ Len(args.objectPoints) # Len(args.imagePoints)
  /\ \E i \in 1..Len(args.imagePoints) :
       LET P == LiftProjective(This, args.imagePoints[i])
       IN  P[3] # 1 /\ P[1] # 0 /\ out.pnpCalls[1].imagePoints[i][1].n # P[1]

\* C8: projectPoints yields, for every object point in input order, the
\* pixel spaceToPlane gives for R * P + t -- under the zero rotation vector
\* and zero translation the pixel spaceToPlane gives for the point itself --
\* and no point is skipped.
C8_ProjectsEveryPoint ==
  out.op = "projectPoints" =>
    LET n0 == Len(args.imagePoints)
    IN  /\ Len(out.imagePoints) = n0 + Len(args.objectPoints)
        /\ \A i \in 1..Len(args.objectPoints) :
             /\ out.imagePoints[n0 + i] =
                  SpaceToPlane(This, MatVecAdd(Rodrigues(args.rvec),
                                               args.objectPoints[i], args.tvec))
             /\ (args.rvec = <<0, 0, 0>> /\ args.tvec = <<0, 0, 0>>) =>
                  out.imagePoints[n0 + i] = SpaceToPlane(This, args.objectPoints[i])

\* C8 witness: MaxPts points under the zero rotation vector and zero
\* translation, landing on different pixels
C8_Witness ==
  /\ out.op = "projectPoints"
  /\ args.rvec = <<0, 0, 0>> /\ args.tvec = <<0, 0, 0>>
  /\ Len(args.objectPoints) = MaxPts
  /\ out.imagePoints[Len(args.imagePoints) + 1] # out.imagePoints[Len(args.imagePoints) + 2]

\* C9: a call of estimateExtrinsics, projectPoints, reprojectionDist or
\* either reprojectionError leaves the Parameter Set and the mask as they
\* were.
C9_AlgorithmsLeaveCameraAlone ==
  [][out'.op \in AlgOps => (params' = params /\ mask' = mask /\ lens' = lens)]_vars

\* C9 witness: an algorithm has run on a camera whose mask and Parameter Set
\* had been written
C9_Witness ==
  /\ out.op \in AlgOps
  /\ mask # EmptyMask
  /\ params.m_cameraName = "left"
  /\ params.m_imageWidth = 2

\* C10: on size-matching views, requested per-view output holds one entry
\* per view, entry i the sum of view i's distances divided by view i's point
\* count, and the aggregate is what it is without the request; without the
\* request nothing is written to the per-view output.
C10_PerViewErrors ==
  (out.op = "reprojectionError" /\ SizesMatch(args)) =>
    LET sums == ViewSums(This, args)
        counts == ViewCountsOf(args)
    IN  /\ args.perViewErrors.needed =>
             /\ Len(out.perViewErrors) = Len(args.objectPoints)
             /\ \A i \in 1..Len(args.objectPoints) :
                  IsQuotient(out.perViewErrors[i], sums[i], counts[i])
        /\ out.ret = ReprojectionError(This, args.objectPoints, args.imagePoints,
                                       args.rvecs, args.tvecs, NotNeeded).ret
        /\ ~args.perViewErrors.needed => out.perViewErrors = args.perViewErrors.mat

\* C10 witness: per-view output requested into an array that held something
\* else, for two views with different means
C10_Witness ==
  /\ out.op = "reprojectionError"
  /\ SizesMatch(args)
  /\ args.perViewErrors = [needed |-> TRUE, mat |-> Stale]
  /\ Len(out.perViewErrors) = 2
  /\ out.perViewErrors[1].k = "num" /\ out.perViewErrors[2].k = "num"
  /\ out.perViewErrors[1] # out.perViewErrors[2]
  /\ out.perViewErrors[2].d # 1

====
